---- MODULE Spec2Model ----
(***************************************************************************)
(* Model of robot_code/main.py: the telemetry loader (read_path_data),     *)
(* the dashboard renderer (plot_robot_path), the simple renderer           *)
(* (plot_simple_path) and the top-level pipeline (main).                   *)
(*                                                                         *)
(* Three specifications share the module:                                  *)
(*   Spec        main() run on one input file, step by step                *)
(*   SpecRender  plot_robot_path's derived values on a bounded series      *)
(*   SpecArrows  the arrow loops of both renderers for series of length n  *)
(*                                                                         *)
(* Floats are fixed-point integers with Scale units per 1.0 (truncating):  *)
(* 5.0 is 5 * Scale.  Text (csv fields, console answers) is a sequence of  *)
(* one-character strings, so that parsing, strip() and lower() are         *)
(* computed and not assumed.                                               *)
(***************************************************************************)
EXTENDS Integers, Sequences, FiniteSets, TLC

VARIABLES
    file,           \* the input file: [exists, header, rows]
    pc,             \* position in main / in the render loops
    line_num,       \* number of data lines the csv reader has consumed
    time_data, x_data, y_data, theta_data, light_data, distance_data,
    data,           \* value returned by read_path_data, or NoData
    err,            \* exception raised inside main's try block, or "none"
    dash,           \* result of plot_robot_path, or NoPlot
    simple,         \* result of plot_simple_path, or NoPlot
    answer,         \* raw text typed at the second prompt, or NoAnswer
    out,            \* console lines printed so far (their kinds)
    n,              \* SpecArrows: len(data['x'])
    i,              \* SpecArrows: loop variable of the arrow loop
    arrows15,       \* SpecArrows: indices at which plot_robot_path drew arrows
    arrows10        \* SpecArrows: indices at which plot_simple_path drew arrows

vars == <<file, pc, line_num, time_data, x_data, y_data, theta_data,
          light_data, distance_data, data, err, dash, simple, answer, out,
          n, i, arrows15, arrows10>>

lists == <<time_data, x_data, y_data, theta_data, light_data, distance_data>>
arrowVars == <<n, i, arrows15, arrows10>>

----------------------------------------------------------------------------
(* Bounds *)

MaxRows == 2        \* data lines per input file (Spec)
MaxLen == 3         \* samples per series (SpecRender)
MaxN == 46          \* series length (SpecArrows)

----------------------------------------------------------------------------
(* Fixed-point floats *)

Scale == 100

Abs(a) == IF a < 0 THEN -a ELSE a

\* truncating division, as float division rounds towards the exact quotient
TDiv(a, b) == IF (a < 0) = (b < 0) THEN Abs(a) \div Abs(b)
              ELSE -(Abs(a) \div Abs(b))

FMul(a, b) == TDiv(a * b, Scale)
FDiv(a, b) == TDiv(a * Scale, b)
FromInt(k) == k * Scale

RECURSIVE SqrtSearch(_, _, _)
SqrtSearch(v, lo, hi) ==
    IF lo >= hi THEN lo
    ELSE LET mid == (lo + hi + 1) \div 2
         IN IF mid * mid <= v THEN SqrtSearch(v, mid, hi)
            ELSE SqrtSearch(v, lo, mid - 1)

\* np.sqrt on a fixed-point value
\* (the search stays below the square root of the largest machine integer)
FSqrt(a) == SqrtSearch(a * Scale, 0, IF a * Scale < 46340 THEN a * Scale ELSE 46340)

----------------------------------------------------------------------------
(* Text: str.strip, str.lower, float(), int() *)

Digits == <<"0", "1", "2", "3", "4", "5", "6", "7", "8", "9">>
IsDigit(c) == \E d \in 1..10 : Digits[d] = c
DigitVal(c) == (CHOOSE d \in 1..10 : Digits[d] = c) - 1
IsSpace(c) == c \in {" ", "\t"}

RECURSIVE LStrip(_)
LStrip(s) == IF s # <<>> /\ IsSpace(Head(s)) THEN LStrip(Tail(s)) ELSE s

RECURSIVE RStrip(_)
RStrip(s) == IF s # <<>> /\ IsSpace(s[Len(s)])
             THEN RStrip(SubSeq(s, 1, Len(s) - 1)) ELSE s

Strip(s) == RStrip(LStrip(s))

LowerChar(c) == CASE c = "Y" -> "y" [] c = "E" -> "e" [] c = "S" -> "s"
                  [] c = "N" -> "n" [] c = "O" -> "o" [] OTHER -> c
Lower(s) == [k \in 1..Len(s) |-> LowerChar(s[k])]

AllDigits(s) == \A k \in 1..Len(s) : IsDigit(s[k])

RECURSIVE DigitsVal(_)
DigitsVal(s) == IF s = <<>> THEN 0
                ELSE 10 * DigitsVal(SubSeq(s, 1, Len(s) - 1)) + DigitVal(s[Len(s)])

HasSign(s) == s # <<>> /\ Head(s) \in {"-", "+"}
Unsigned(s) == IF HasSign(s) THEN Tail(s) ELSE s
SignOf(s) == IF s # <<>> /\ Head(s) = "-" THEN -1 ELSE 1

\* int(text): optional blanks, optional sign, one or more digits
ParseInt(text) ==
    LET t == Strip(text)
        u == Unsigned(t)
    IN IF u # <<>> /\ AllDigits(u)
       THEN [ok |-> TRUE, val |-> SignOf(t) * DigitsVal(u)]
       ELSE [ok |-> FALSE, val |-> 0]

DotPos(s) == IF \E k \in 1..Len(s) : s[k] = "."
             THEN CHOOSE k \in 1..Len(s) : s[k] = "." /\ \A j \in 1..(k-1) : s[j] # "."
             ELSE 0

\* the fraction digits as fixed-point: two decimals kept
FracVal(s) == IF Len(s) = 0 THEN 0
              ELSE IF Len(s) = 1 THEN DigitVal(s[1]) * (Scale \div 10)
              ELSE DigitVal(s[1]) * (Scale \div 10) + DigitVal(s[2]) * (Scale \div 100)

\* float(text): optional blanks, optional sign, digits with an optional
\* fraction, at least one digit in all
ParseFloat(text) ==
    LET t == Strip(text)
        u == Unsigned(t)
        d == DotPos(u)
        ip == IF d = 0 THEN u ELSE SubSeq(u, 1, d - 1)
        fp == IF d = 0 THEN <<>> ELSE SubSeq(u, d + 1, Len(u))
    IN IF AllDigits(ip) /\ AllDigits(fp) /\ Len(ip) + Len(fp) > 0
       THEN [ok |-> TRUE, val |-> SignOf(t) * (FromInt(DigitsVal(ip)) + FracVal(fp))]
       ELSE [ok |-> FALSE, val |-> 0]

----------------------------------------------------------------------------
(* Input files *)

Required == <<"Time", "X", "Y", "Theta", "Light", "Dist">>
RequiredSet == {Required[k] : k \in 1..Len(Required)}

HeaderSet == {
    <<"Time", "X", "Y", "Theta", "Light", "Dist">>,
    <<"Theta", "X", "Y", "Time", "Dist", "Light">>,
    <<"Time", "X", "Y", "Theta", "Light">>,
    <<"X", "Y", "Theta", "Light", "Dist">>,
    <<"Time", "X", "Y", "Theta", "Light", "Dist", "Volt">> }

RowSet == {
    << <<"0">>, <<"0">>, <<"0">>, <<"0">>, <<"5","0">>, <<"1","0">> >>,
    << <<"1","0","0","0">>, <<" ","3"," ">>, <<"4",".","5">>,
       <<"-","9","0">>, <<"4","4">>, <<"7">> >>,
    << <<"2","0","0","0">>, <<"x","7">>, <<"4">>, <<"0">>, <<"5","0">>, <<"1","0">> >>,
    << <<"2","0","0","0">>, <<"3">>, <<"4">>, <<"0">>, <<"4",".","5">>, <<"1","0">> >>,
    << <<"2","0","0","0">>, <<"3">>, <<"4">>, <<"0">>, <<"5","0">> >>,
    << <<"2","0","0","0">>, <<"3">>, <<"4">>, <<"0">>, <<"5","0">>, <<"1","0">>,
       <<"9","9">> >>,
    << >> }

RECURSIVE SeqsUpTo(_, _)
SeqsUpTo(S, k) == IF k = 0 THEN {<<>>}
                  ELSE LET shorter == SeqsUpTo(S, k - 1)
                       IN shorter \cup {Append(s, e) : s \in shorter, e \in S}

NoFile == [exists |-> FALSE, header |-> <<>>, rows |-> <<>>]

FileSet == {NoFile} \cup
           {[exists |-> TRUE, header |-> h, rows |-> r] :
               h \in HeaderSet \cup {<<>>}, r \in SeqsUpTo(RowSet, MaxRows)}

----------------------------------------------------------------------------
(* read_path_data *)

Max(a, b) == IF a >= b THEN a ELSE b

\* faulty variant of DictRow: fields taken by position, the header's order ignored
DictRow_Positional(header, row) ==
    [c \in {header[k] : k \in 1..Len(header)} |->
        LET k == IF \E j \in 1..Len(Required) : Required[j] = c
                 THEN CHOOSE j \in 1..Len(Required) : Required[j] = c
                 ELSE Len(Required) + 1
        IN IF k <= Len(row) THEN [none |-> FALSE, text |-> row[k]]
           ELSE [none |-> TRUE, text |-> <<>>]]

\* csv.DictReader.__next__: dict(zip(fieldnames, row)); a short row is padded
\* with None (restval), the surplus of a long row goes under the key None
DictRow(header, row) ==
    [c \in {header[k] : k \in 1..Len(header)} |->
        LET k == CHOOSE j \in 1..Len(header) :
                    header[j] = c /\ \A m \in (j+1)..Len(header) : header[m] # c
        IN IF k <= Len(row) THEN [none |-> FALSE, text |-> row[k]]
           ELSE [none |-> TRUE, text |-> <<>>]]

\* float(row[col]) for the first four columns, int(row[col]) for the last two
Convert(d, k) ==
    LET col == Required[k]
    IN IF col \notin DOMAIN d THEN [exc |-> "KeyError", val |-> 0]
       ELSE IF d[col].none THEN [exc |-> "TypeError", val |-> 0]
       ELSE LET p == IF k <= 4 THEN ParseFloat(d[col].text) ELSE ParseInt(d[col].text)
            IN IF p.ok THEN [exc |-> "none", val |-> p.val]
               ELSE [exc |-> "ValueError", val |-> 0]

\* the loop body, lines 21-26: six appends in order, stopping at the first
\* conversion that raises
RECURSIVE AppendFields(_, _, _)
AppendFields(d, k, ls) ==
    IF k > Len(Required) THEN [lists |-> ls, exc |-> "none"]
    ELSE LET c == Convert(d, k)
         IN IF c.exc # "none" THEN [lists |-> ls, exc |-> c.exc]
            ELSE AppendFields(d, k + 1, [ls EXCEPT ![k] = Append(@, c.val)])

\* the csv reader skips blank lines: index of the next non-blank data line
\* after line_num, or 0 when the file is exhausted
NextLine(f, ln) ==
    IF \E j \in (ln+1)..Len(f.rows) : f.rows[j] # <<>>
    THEN CHOOSE j \in (ln+1)..Len(f.rows) :
            f.rows[j] # <<>> /\ \A m \in (ln+1)..(j-1) : f.rows[m] = <<>>
    ELSE 0

NoData == [loaded |-> FALSE, time |-> <<>>, x |-> <<>>, y |-> <<>>,
           theta |-> <<>>, light |-> <<>>, distance |-> <<>>]

MakeData(ls) == [loaded |-> TRUE, time |-> ls[1], x |-> ls[2], y |-> ls[3],
                 theta |-> ls[4], light |-> ls[5], distance |-> ls[6]]

----------------------------------------------------------------------------
(* plot_robot_path, plot_simple_path *)

dark_threshold == 45

\* range(0, N, step) as the sequence of its (0-based) values
Range0(N, step) == [k \in 1..((N + step - 1) \div step) |-> (k - 1) * step]

\* faulty variant of Skip15: the simple plot's divisor
Skip15_Div10(N) == Max(1, N \div 10)

\* line 46
Skip15(N) == Max(1, N \div 15)

\* faulty variant of Skip10: arrows twice as dense
Skip10_Div20(N) == Max(1, N \div 20)

\* line 174
Skip10(N) == Max(1, N \div 10)

\* data[name][idx] for a 0-based idx
At(s, idx) == s[idx + 1]

\* faulty variant of Diff: displacement from the first sample
Diff_FromFirst(s) == [k \in 1..(Len(s) - 1) |-> s[k + 1] - s[1]]

\* np.diff
Diff(s) == [k \in 1..(Len(s) - 1) |-> s[k + 1] - s[k]]

RECURSIVE Sum(_)
Sum(s) == IF s = <<>> THEN 0 ELSE Head(s) + Sum(Tail(s))

\* faulty variant of IsDark: the threshold itself counts as dark
IsDark_Inclusive(l) == l <= dark_threshold

\* line 77: data['light'] < dark_threshold, elementwise
IsDark(l) == l < dark_threshold

\* data[name][mask]: boolean-mask selection
RECURSIVE Mask(_, _)
Mask(s, light) ==
    IF s = <<>> THEN <<>>
    ELSE IF IsDark(Head(light))
         THEN <<Head(s)>> \o Mask(Tail(s), Tail(light))
         ELSE Mask(Tail(s), Tail(light))

\* one arrow: the sample it starts at and its angle in degrees (theta / 100.0)
Arrow(d, idx) == [at |-> idx, x |-> At(d.x, idx), y |-> At(d.y, idx),
                  deg |-> FDiv(At(d.theta, idx), FromInt(100))]

Arrows(d, step) == LET r == Range0(Len(d.x), step)
                   IN [k \in 1..Len(r) |-> Arrow(d, r[k])]

total_distance(d) ==
    LET dx == Diff(d.x)
        dy == Diff(d.y)
    IN Sum([k \in 1..Len(dx) |-> FSqrt(FMul(dx[k], dx[k]) + FMul(dy[k], dy[k]))])

total_time(d) == FDiv(d.time[Len(d.time)] - d.time[1], FromInt(1000))

\* faulty variant of avg_speed: the guard excludes only zero
avg_speed_NonZeroGuard(d) ==
    IF total_time(d) # 0 THEN FDiv(total_distance(d), total_time(d)) ELSE 0

avg_speed(d) == IF total_time(d) > 0 THEN FDiv(total_distance(d), total_time(d))
                ELSE 0

NoPlot == [drawn |-> FALSE, exc |-> "none"]

\* what plot_robot_path hands to the drawing backend
plot_robot_path(d) ==
    IF Len(d.x) = 0 THEN [drawn |-> FALSE, exc |-> "IndexError"]
    ELSE [drawn |-> TRUE, exc |-> "none",
          arrows |-> Arrows(d, Skip15(Len(d.x))),
          dark_points_x |-> Mask(d.x, d.light),
          dark_points_y |-> Mask(d.y, d.light),
          highlight |-> Len(Mask(d.x, d.light)) > 0,
          total_distance |-> total_distance(d),
          total_time |-> total_time(d),
          avg_speed |-> avg_speed(d)]

plot_simple_path(d) ==
    IF Len(d.x) = 0 THEN [drawn |-> FALSE, exc |-> "IndexError"]
    ELSE [drawn |-> TRUE, exc |-> "none",
          arrows |-> Arrows(d, Skip10(Len(d.x)))]

----------------------------------------------------------------------------
(* main *)

NoAnswer == [given |-> FALSE, text |-> <<>>]

AnswerSet == {
    <<"y">>, <<" ", "Y", " ">>, <<"Y", "e", "S">>, <<"y", "e", "s", " ">>,
    <<"n">>, << >>, <<"y", "e", "s", "s">>, <<"n", "o", " ", "y">> }

\* faulty variant of Choice: the answer is not lower-cased
Choice_NoLower(text) == Strip(text)

\* line 218: input(...).strip().lower()
Choice(text) == Lower(Strip(text))

\* line 219: choice == 'y' or choice == 'yes'
WantsSimple(choice) == choice = <<"y">> \/ choice = <<"y", "e", "s">>

\* lines 226-230: the except clauses of main, as the console line they print
Except(e) == IF e = "FileNotFoundError" THEN "NotFound" ELSE "ErrorOccurred"

\* an exception e raised by a statement of the try block, after it printed `printed`
Raise(e, printed) ==
    /\ err' = e
    /\ out' = out \o printed \o <<Except(e)>>
    /\ pc' = "done"

Init ==
    /\ file \in FileSet
    /\ pc = "start"
    /\ line_num = 0
    /\ time_data = <<>> /\ x_data = <<>> /\ y_data = <<>>
    /\ theta_data = <<>> /\ light_data = <<>> /\ distance_data = <<>>
    /\ data = NoData
    /\ err = "none"
    /\ dash = NoPlot
    /\ simple = NoPlot
    /\ answer = NoAnswer
    /\ out = <<>>
    /\ n = 0 /\ i = 0 /\ arrows15 = <<>> /\ arrows10 = <<>>

\* lines 206-207, 18-19: print, then open(filename) inside read_path_data
OpenFile ==
    /\ pc = "start"
    /\ IF file.exists
       THEN /\ pc' = "reading"
            /\ out' = Append(out, "Reading")
            /\ err' = err
       ELSE Raise("FileNotFoundError", <<"Reading">>)
    /\ UNCHANGED <<file, line_num, lists, data, dash, simple, answer, arrowVars>>

\* lines 20-26: one iteration of `for row in reader`
ReadRow ==
    /\ pc = "reading"
    /\ NextLine(file, line_num) # 0
    /\ LET j == NextLine(file, line_num)
           r == AppendFields(DictRow(file.header, file.rows[j]), 1, lists)
       IN /\ line_num' = j
          /\ time_data' = r.lists[1]
          /\ x_data' = r.lists[2]
          /\ y_data' = r.lists[3]
          /\ theta_data' = r.lists[4]
          /\ light_data' = r.lists[5]
          /\ distance_data' = r.lists[6]
          /\ IF r.exc = "none"
             THEN UNCHANGED <<pc, err, out>>
             ELSE Raise(r.exc, <<>>)
    /\ UNCHANGED <<file, data, dash, simple, answer, arrowVars>>

\* lines 28-35 and 208: the reader is exhausted, the series is returned
ReturnData ==
    /\ pc = "reading"
    /\ NextLine(file, line_num) = 0
    /\ line_num' = Len(file.rows)
    /\ data' = MakeData(lists)
    /\ out' = Append(out, "Read")
    /\ pc' = "info"
    /\ UNCHANGED <<file, lists, err, dash, simple, answer, arrowVars>>

\* lines 210-213: np.min / np.max of an empty array raise ValueError
BasicInfo ==
    /\ pc = "info"
    /\ IF Len(data.x) = 0
       THEN Raise("ValueError", <<>>)
       ELSE /\ out' = Append(out, "BasicInfo")
            /\ pc' = "dashboard"
            /\ err' = err
    /\ UNCHANGED <<file, line_num, lists, data, dash, simple, answer, arrowVars>>

\* lines 215-216: the drawing backend (savefig, show) may fail
Dashboard ==
    /\ pc = "dashboard"
    /\ \E backend_ok \in BOOLEAN :
         LET r == plot_robot_path(data)
         IN IF r.exc = "none" /\ backend_ok
            THEN /\ dash' = r
                 /\ out' = out \o <<"Generating", "SavedDashboard">>
                 /\ pc' = "prompt"
                 /\ err' = err
            ELSE /\ Raise(IF r.exc = "none" THEN "RenderError" ELSE r.exc, <<"Generating">>)
                 /\ dash' = dash
    /\ UNCHANGED <<file, line_num, lists, data, simple, answer, arrowVars>>

\* lines 218-219: the second prompt; a closed stdin raises EOFError
AskSimple ==
    /\ pc = "prompt"
    /\ \E eof \in BOOLEAN, text \in AnswerSet :
         IF eof
         THEN /\ Raise("EOFError", <<"AskSimple">>)
              /\ answer' = answer
         ELSE /\ answer' = [given |-> TRUE, text |-> text]
              /\ out' = Append(out, "AskSimple")
              /\ pc' = IF WantsSimple(Choice(text)) THEN "simple" ELSE "banner"
              /\ err' = err
    /\ UNCHANGED <<file, line_num, lists, data, dash, simple, arrowVars>>

\* lines 220-221
SimplePlot ==
    /\ pc = "simple"
    /\ \E backend_ok \in BOOLEAN :
         LET r == plot_simple_path(data)
         IN IF r.exc = "none" /\ backend_ok
            THEN /\ simple' = r
                 /\ out' = out \o <<"GeneratingSimple", "SavedSimple">>
                 /\ pc' = "banner"
                 /\ err' = err
            ELSE /\ Raise(IF r.exc = "none" THEN "RenderError" ELSE r.exc,
                          <<"GeneratingSimple">>)
                 /\ simple' = simple
    /\ UNCHANGED <<file, line_num, lists, data, dash, answer, arrowVars>>

\* lines 223-224
Banner ==
    /\ pc = "banner"
    /\ out' = Append(out, "Completed")
    /\ pc' = "done"
    /\ UNCHANGED <<file, line_num, lists, data, err, dash, simple, answer, arrowVars>>

Next == OpenFile \/ ReadRow \/ ReturnData \/ BasicInfo \/ Dashboard
        \/ AskSimple \/ SimplePlot \/ Banner

Spec == Init /\ [][Next]_vars

----------------------------------------------------------------------------
(* plot_robot_path on a loaded series *)

Sample(t, x, y, th, l, d) ==
    [time |-> FromInt(t), x |-> FromInt(x), y |-> FromInt(y),
     theta |-> FromInt(th), light |-> l, distance |-> d]

SampleSet == {
    Sample(0, 0, 0, 0, 50, 10),
    Sample(1000, 3, 4, 0, 50, 10),
    Sample(2000, 3, 4, 0, 50, 10),
    Sample(1000, 0, 0, 9000, 10, 5),
    Sample(0, 1, 1, -4500, 45, 0),
    Sample(2000, 6, 8, 18000, 80, 3),
    Sample(500, 3, 0, 0, 44, 9) }

Series(ss) == [loaded |-> TRUE,
               time |-> [k \in 1..Len(ss) |-> ss[k].time],
               x |-> [k \in 1..Len(ss) |-> ss[k].x],
               y |-> [k \in 1..Len(ss) |-> ss[k].y],
               theta |-> [k \in 1..Len(ss) |-> ss[k].theta],
               light |-> [k \in 1..Len(ss) |-> ss[k].light],
               distance |-> [k \in 1..Len(ss) |-> ss[k].distance]]

\* main has loaded a series of at least one sample and printed its summary
InitRender ==
    /\ file = NoFile
    /\ pc = "dashboard"
    /\ line_num = 0
    /\ data \in {Series(ss) : ss \in SeqsUpTo(SampleSet, MaxLen) \ {<<>>}}
    /\ time_data = data.time /\ x_data = data.x /\ y_data = data.y
    /\ theta_data = data.theta /\ light_data = data.light
    /\ distance_data = data.distance
    /\ err = "none"
    /\ dash = NoPlot
    /\ simple = NoPlot
    /\ answer = NoAnswer
    /\ out = <<"Reading", "Read", "BasicInfo">>
    /\ n = 0 /\ i = 0 /\ arrows15 = <<>> /\ arrows10 = <<>>

SpecRender == InitRender /\ [][Dashboard]_vars

----------------------------------------------------------------------------
(* The arrow loops, lines 46-52 and 174-180, one iteration at a time *)

InitArrows ==
    /\ file = NoFile
    /\ pc = "arrows15"
    /\ line_num = 0
    /\ time_data = <<>> /\ x_data = <<>> /\ y_data = <<>>
    /\ theta_data = <<>> /\ light_data = <<>> /\ distance_data = <<>>
    /\ data = NoData
    /\ err = "none"
    /\ dash = NoPlot
    /\ simple = NoPlot
    /\ answer = NoAnswer
    /\ out = <<>>
    /\ n \in 1..MaxN
    /\ i = 0 /\ arrows15 = <<>> /\ arrows10 = <<>>

mainVars == <<file, line_num, lists, data, err, dash, simple, answer, out>>

\* lines 47-52: for i in range(0, len(data['x']), skip): ax1.arrow(...)
Arrow15 ==
    /\ pc = "arrows15"
    /\ i < n
    /\ arrows15' = Append(arrows15, i)
    /\ i' = i + Skip15(n)
    /\ UNCHANGED <<pc, n, arrows10, mainVars>>

Arrow15End ==
    /\ pc = "arrows15"
    /\ i >= n
    /\ pc' = "arrows10"
    /\ i' = 0
    /\ UNCHANGED <<n, arrows15, arrows10, mainVars>>

\* lines 175-180: for i in range(0, len(data['x']), skip): plt.arrow(...)
Arrow10 ==
    /\ pc = "arrows10"
    /\ i < n
    /\ arrows10' = Append(arrows10, i)
    /\ i' = i + Skip10(n)
    /\ UNCHANGED <<pc, n, arrows15, mainVars>>

Arrow10End ==
    /\ pc = "arrows10"
    /\ i >= n
    /\ pc' = "drawn"
    /\ UNCHANGED <<n, i, arrows15, arrows10, mainVars>>

NextArrows == Arrow15 \/ Arrow15End \/ Arrow10 \/ Arrow10End

SpecArrows == InitArrows /\ [][NextArrows]_vars

----------------------------------------------------------------------------
(* Properties of the loader and of main (specification Spec) *)

\* literals of the input files that float() accepts, and those int() accepts
FloatLits == {
    <<"0">>, <<"3">>, <<"4">>, <<"7">>, <<"1","0">>, <<"4","4">>, <<"5","0">>,
    <<"9","9">>, <<"1","0","0","0">>, <<"2","0","0","0">>, <<" ","3"," ">>,
    <<"4",".","5">>, <<"-","9","0">> }
IntLits == FloatLits \ { <<"4",".","5">> }

Cols(f) == {f.header[k] : k \in 1..Len(f.header)}
Pos(f, c) == CHOOSE k \in 1..Len(f.header) : f.header[k] = c
Loading == pc \in {"start", "reading"}
Printed(line) == \E k \in 1..Len(out) : out[k] = line
Last(s) == s[Len(s)]

\* the field of data line j under column c is a parseable literal
GoodField(f, j, c) ==
    /\ Pos(f, c) <= Len(f.rows[j])
    /\ f.rows[j][Pos(f, c)] \in
          (IF c \in {"Light", "Dist"} THEN IntLits ELSE FloatLits)

WellFormed(f) ==
    /\ f.exists
    /\ RequiredSet \subseteq Cols(f)
    /\ \A j \in 1..Len(f.rows) :
          /\ Len(f.rows[j]) = Len(f.header)
          /\ \A c \in RequiredSet : GoodField(f, j, c)

FloatAt(f, j, c) == ParseFloat(f.rows[j][Pos(f, c)]).val
IntAt(f, j, c) == ParseInt(f.rows[j][Pos(f, c)]).val

\* C1: for a well-formed file read_path_data returns six sequences whose
\* length is the number of data rows, and the six values at index j are the
\* fields of data row j under the columns Time, X, Y, Theta, Light, Dist.
C1_LoadAligned ==
    (WellFormed(file) /\ ~Loading) =>
        /\ data.loaded
        /\ \A s \in {data.time, data.x, data.y, data.theta, data.light,
                     data.distance} : Len(s) = Len(file.rows)
        /\ \A j \in 1..Len(file.rows) :
              /\ data.time[j] = FloatAt(file, j, "Time")
              /\ data.x[j] = FloatAt(file, j, "X")
              /\ data.y[j] = FloatAt(file, j, "Y")
              /\ data.theta[j] = FloatAt(file, j, "Theta")
              /\ data.light[j] = IntAt(file, j, "Light")
              /\ data.distance[j] = IntAt(file, j, "Dist")

C1_Witness ==
    /\ pc = "done"
    /\ WellFormed(file)
    /\ file.header = <<"Theta", "X", "Y", "Time", "Dist", "Light">>
    /\ Len(file.rows) = 2
    /\ file.rows[1] # file.rows[2]
    /\ data.loaded
    /\ data.time = <<-9000, 0>>
    /\ data.light = <<7, 10>>

\* a data row (a non-blank line) with a malformed literal under a required
\* column, or with a field count other than the header's
BadRow(f, j) ==
    /\ f.rows[j] # <<>>
    /\ \/ Len(f.rows[j]) # Len(f.header)
       \/ \E c \in RequiredSet \cap Cols(f) :
             Pos(f, c) <= Len(f.rows[j]) /\ ~GoodField(f, j, c)

HasBadRow(f) == f.exists /\ \E j \in 1..Len(f.rows) : BadRow(f, j)

\* C2: if any data row has a malformed literal or a field count different
\* from the header's, read_path_data raises and returns no series.
C2_BadRowFailsLoad ==
    (HasBadRow(file) /\ ~Loading) => (~data.loaded /\ err # "none")

\* the file has a header line, and it lacks a required column
MissingColumn(f) ==
    f.exists /\ f.header # <<>> /\ ~(RequiredSet \subseteq Cols(f))

\* C3: if the header lacks a required column, read_path_data fails, however
\* many data rows follow, and nothing is ever appended to the six lists.
C3_MissingColumnFailsFirst ==
    MissingColumn(file) =>
        /\ ~Loading => (~data.loaded /\ err # "none")
        /\ \A k \in 1..6 : lists[k] = <<>>

Malformed(f) == HasBadRow(f) \/ MissingColumn(f)

\* C4: in main a nonexistent path ends in the NotFound diagnostic, an
\* existing file with malformed content ends in the generic diagnostic,
\* never the other way round, and main returns normally.
C4_Diagnostics ==
    pc = "done" =>
        /\ ~file.exists =>
              (Last(out) = "NotFound" /\ ~Printed("ErrorOccurred"))
        /\ Malformed(file) =>
              (Last(out) = "ErrorOccurred" /\ ~Printed("NotFound"))

\* the order of the console lines of one run
Rank(line) ==
    CASE line = "Reading" -> 0
      [] line = "Read" -> 1
      [] line = "BasicInfo" -> 2
      [] line = "Generating" -> 3
      [] line = "SavedDashboard" -> 4
      [] line = "AskSimple" -> 5
      [] line = "GeneratingSimple" -> 6
      [] line = "SavedSimple" -> 7
      [] line = "Completed" -> 8
      [] OTHER -> 9

\* the answers of AnswerSet that are y or yes up to case and blanks
YesAnswers == { <<"y">>, <<" ", "Y", " ">>, <<"Y", "e", "S">>,
                <<"y", "e", "s", " ">> }

\* C5: the steps of main happen only in the order load, dashboard, second
\* prompt, simple render; the prompt is issued only after a successful load
\* and dashboard; plot_simple_path is called exactly when the prompt was
\* answered y or yes (case and blanks aside); a failed load or dashboard is
\* followed by no later step.
C5_PipelineOrder ==
    /\ \A a, b \in 1..Len(out) : a < b => Rank(out[a]) < Rank(out[b])
    /\ Printed("Generating") => data.loaded
    /\ Printed("AskSimple") =>
          (data.loaded /\ dash.drawn /\ Printed("SavedDashboard"))
    /\ Printed("GeneratingSimple") =>
          (Printed("AskSimple") /\ answer.given /\ answer.text \in YesAnswers)
    /\ (pc = "done" /\ answer.given /\ answer.text \in YesAnswers) =>
          Printed("GeneratingSimple")
    /\ (pc = "done" /\ ~data.loaded) =>
          \A k \in 1..Len(out) : Rank(out[k]) \notin 3..8
    /\ (pc = "done" /\ ~dash.drawn) =>
          \A k \in 1..Len(out) : Rank(out[k]) \notin 4..8
    /\ err # "none" => (pc = "done" /\ ~Printed("Completed"))

C5_Witness ==
    /\ pc = "done"
    /\ answer.text = <<" ", "Y", " ">>
    /\ simple.drawn
    /\ out = <<"Reading", "Read", "BasicInfo", "Generating", "SavedDashboard",
               "AskSimple", "GeneratingSimple", "SavedSimple", "Completed">>

----------------------------------------------------------------------------
(* Properties of plot_robot_path (specification SpecRender) *)

N == Len(data.x)

\* elapsed time of the series in stored units (milliseconds, fixed-point)
ElapsedMs == data.time[N] - data.time[1]

\* the length of segment k, from its two end points: the largest r with
\* r^2 <= dx^2 + dy^2
SegLen(k) ==
    LET ax == Abs(data.x[k + 1] - data.x[k])
        ay == Abs(data.y[k + 1] - data.y[k])
    IN CHOOSE r \in Max(ax, ay)..(ax + ay) :
          r * r <= ax * ax + ay * ay /\ ax * ax + ay * ay < (r + 1) * (r + 1)

RECURSIVE PathUpTo(_)
PathUpTo(k) == IF k = 0 THEN 0 ELSE PathUpTo(k - 1) + SegLen(k)

\* C6: the average speed of the statistics panel is path length / elapsed
\* time when the elapsed time is positive and exactly 0 otherwise; no
\* division error is raised.
C6_AvgSpeedGuard ==
    /\ err \in {"none", "RenderError"}
    /\ dash.drawn =>
          /\ ElapsedMs > 0 =>
                /\ dash.total_time > 0
                /\ dash.avg_speed * dash.total_time <= dash.total_distance * Scale
                /\ dash.total_distance * Scale < (dash.avg_speed + 1) * dash.total_time
          /\ ElapsedMs <= 0 => dash.avg_speed = 0

C6_Witness ==
    /\ dash.drawn
    /\ N = 2
    /\ ElapsedMs = 0
    /\ dash.total_distance = 5 * Scale
    /\ dash.avg_speed = 0

ExampleSeries ==
    Series(<< Sample(0, 0, 0, 0, 50, 10), Sample(1000, 3, 4, 0, 50, 10),
              Sample(2000, 3, 4, 0, 50, 10) >>)

\* C7: the path length is the sum over consecutive sample pairs of
\* sqrt(dx^2 + dy^2), the elapsed time is (time[last] - time[first]) / 1000,
\* and the rows (0,0,0,0,50,10), (1000,3,4,0,50,10), (2000,3,4,0,50,10) give
\* path length 5.0, elapsed time 2.0 s and average speed 2.5 cm/s.
C7_PathLengthAndTime ==
    dash.drawn =>
        /\ dash.total_distance = PathUpTo(N - 1)
        /\ dash.total_time * 1000 = ElapsedMs
        /\ data = ExampleSeries =>
              /\ dash.total_distance = 5 * Scale
              /\ dash.total_time = 2 * Scale
              /\ 2 * dash.avg_speed = 5 * Scale

C7_Witness ==
    /\ dash.drawn
    /\ data = ExampleSeries
    /\ dash.total_distance = 5 * Scale
    /\ dash.avg_speed = 250

\* the samples whose light value is below 45, i.e. at most 44
DarkIdx == {k \in 1..N : data.light[k] <= 44}
NthDark(m) == CHOOSE k \in DarkIdx : Cardinality({j \in DarkIdx : j <= k}) = m

\* C8: the highlighted subset is exactly the samples with light strictly
\* below 45, in order; light values [10, 50, 80] highlight one sample, the
\* one with light 10; the highlight is drawn iff the subset is non-empty,
\* and an empty subset raises nothing.
C8_DarkSubset ==
    /\ err \in {"none", "RenderError"}
    /\ dash.drawn =>
          /\ Len(dash.dark_points_x) = Cardinality(DarkIdx)
          /\ Len(dash.dark_points_y) = Cardinality(DarkIdx)
          /\ \A m \in 1..Cardinality(DarkIdx) :
                /\ dash.dark_points_x[m] = data.x[NthDark(m)]
                /\ dash.dark_points_y[m] = data.y[NthDark(m)]
          /\ dash.highlight <=> (DarkIdx # {})
          /\ data.light = <<10, 50, 80>> =>
                (Len(dash.dark_points_x) = 1 /\ DarkIdx = {1})

C8_Witness ==
    /\ dash.drawn
    /\ data.light = <<10, 45, 80>>
    /\ dash.highlight
    /\ dash.dark_points_x = <<0>>
    /\ dash.dark_points_y = <<0>>

----------------------------------------------------------------------------
(* Properties of the arrow loops (specification SpecArrows) *)

Min(a, b) == IF a <= b THEN a ELSE b

\* idx is the sequence 0, s, 2s, ... of all multiples of s below n
Multiples(idx, s) ==
    /\ \A k \in 1..Len(idx) : idx[k] = (k - 1) * s /\ idx[k] < n
    /\ Len(idx) * s >= n

\* C9 as stated: plot_simple_path draws max(1, N/10) arrows, never more
\* than the dashboard's path panel draws for the same series.
C9_CountIsMax1NDiv10 ==
    pc = "drawn" =>
        /\ Len(arrows10) = Max(1, n \div 10)
        /\ Len(arrows10) <= Len(arrows15)

\* C9 amended: plot_simple_path draws its arrows at the indices 0, s, 2s, ...
\* below N with spacing s = max(1, N/10) (integer division), and their number
\* is never larger than the number the dashboard's path panel draws.
C9_SpacingIsMax1NDiv10 ==
    pc = "drawn" =>
        /\ Multiples(arrows10, IF n < 10 THEN 1 ELSE n \div 10)
        /\ Len(arrows10) <= Len(arrows15)

C9_Witness ==
    /\ pc = "drawn"
    /\ n = 30
    /\ Len(arrows10) = 10
    /\ Len(arrows15) = 15

\* C10: the dashboard's path panel draws arrows at exactly the indices
\* 0, s, 2s, ... below N with s = max(1, N div 15): the first sample gets an
\* arrow, every arrow index is a sample index, and there are at least
\* min(N, 15) and at most 29 arrows.
C10_DashboardArrows ==
    /\ \A k \in 1..Len(arrows15) : arrows15[k] \in 0..(n - 1)
    /\ pc \in {"arrows10", "drawn"} =>
          /\ Multiples(arrows15, IF n < 15 THEN 1 ELSE n \div 15)
          /\ arrows15[1] = 0
          /\ Len(arrows15) >= Min(n, 15)
          /\ Len(arrows15) <= 29

C10_Witness ==
    /\ pc = "drawn"
    /\ n = 29
    /\ Len(arrows15) = 29
    /\ arrows15[29] = 28

====
